---- MODULE Spec2Model ----
(***************************************************************************)
(* A model of the generic AVL rank tree of src/avl.hpp                     *)
(* (AVL::AVLRankTree with the default count aggregate AVL::DefaultRank and *)
(* the default comparator AVL::CompareFunc).                               *)
(*                                                                         *)
(* Nodes live in a heap: a function from node addresses to node records.   *)
(* Address 0 is the NULL pointer.  A tree object is the record of the      *)
(* class's fields size, root, max_node and min_node.  The state is one     *)
(* tree object and the heap that holds its nodes.                          *)
(***************************************************************************)
EXTENDS Integers, Sequences, FiniteSets, TLC

(***************************************************************************)
(* Bounds of the model.                                                    *)
(*   MaxNodes   the largest number of nodes the tree grows to              *)
(*   MaxKey     keys are 1..MaxKey                                         *)
(*   MaxSrc     the largest size of the other source of a merge            *)
(*   MaxMerged  the largest size of a merge-constructed tree               *)
(*   MaxDeep    the largest number of nodes of the trees of SpecDeep and   *)
(*              SpecKeys                                                   *)
(***************************************************************************)
MaxNodes == 4
MaxKey == 3
MaxSrc == 1
MaxMerged == 3
MaxDeep == 5

Keys == 1..MaxKey
Values == {"a", "b"}
Entries == [key : Keys, value : Values]

(***************************************************************************)
(* Program constants.                                                      *)
(***************************************************************************)
NULL == 0
LESS_THAN == -1
EQUAL == 0
GREATER_THAN == 1

VARIABLES heap, tree

vars == <<heap, tree>>

Max(a, b) == IF a >= b THEN a ELSE b

(* Sequencing: the value v of one statement, handed to the statements      *)
(* F that follow it.                                                       *)
Bind(v, F(_)) == F(v)

(***************************************************************************)
(* CompareFunc::operator()                                                 *)
(***************************************************************************)
Compare(key1, key2) ==
    IF key1 < key2 THEN LESS_THAN
    ELSE IF key1 > key2 THEN GREATER_THAN
    ELSE EQUAL

(***************************************************************************)
(* new Node(key, value): a fresh address holding a leaf.                   *)
(***************************************************************************)
NewAddr(h) ==
    CHOOSE n \in 1..(Cardinality(DOMAIN h) + 1) :
        n \notin DOMAIN h /\ \A m \in 1..(n - 1) : m \in DOMAIN h

NewNode(key, value) ==
    [parent |-> NULL, right_child |-> NULL, left_child |-> NULL,
     key |-> key, value |-> value, height |-> 0, rank |-> 1]

(* delete node *)
Delete(h, node) == [n \in (DOMAIN h) \ {node} |-> h[n]]

(* AVLRankTree(): the empty tree *)
EmptyTree == [size |-> 0, root |-> NULL, max_node |-> NULL, min_node |-> NULL]

(* UpdateRank that leaves out the second child *)
UpdateRank_OneChild(h, target, child_node1, child_node2) ==
    IF target = NULL THEN h
    ELSE [h EXCEPT ![target].rank =
             1 + (IF child_node1 # NULL THEN h[child_node1].rank ELSE 0)]

(***************************************************************************)
(* UpdateRank: target's aggregate from its own contribution (RankInfo(key, *)
(* value), which is 1 for the count aggregate) and the aggregates of the   *)
(* two given children.                                                     *)
(***************************************************************************)
UpdateRank(h, target, child_node1, child_node2) ==
    IF target = NULL THEN h
    ELSE [h EXCEPT ![target].rank =
             1 + (IF child_node1 # NULL THEN h[child_node1].rank ELSE 0)
               + (IF child_node2 # NULL THEN h[child_node2].rank ELSE 0)]

GetHeight(h, node) == IF node = NULL THEN -1 ELSE h[node].height

RotateR(h, node) ==
    LET x == node
        y == h[node].left_child
        y_right == h[h[node].left_child].right_child
    IN  Bind([h EXCEPT ![y].right_child = x, ![y].parent = h[x].parent], LAMBDA h1 :
        Bind([h1 EXCEPT ![x].parent = y, ![x].left_child = y_right], LAMBDA h2 :
        Bind(IF y_right # NULL THEN [h2 EXCEPT ![y_right].parent = x] ELSE h2, LAMBDA h3 :
        Bind([h3 EXCEPT ![x].height =
                 Max(GetHeight(h3, y_right), GetHeight(h3, h3[x].right_child)) + 1], LAMBDA h4 :
        Bind([h4 EXCEPT ![y].height =
                 Max(GetHeight(h4, h4[y].left_child), GetHeight(h4, x)) + 1], LAMBDA h5 :
        Bind(UpdateRank(h5, x, y_right, h5[x].right_child), LAMBDA h6 :
        [h |-> UpdateRank(h6, y, h6[y].left_child, x), r |-> y]))))))

RotateL(h, node) ==
    LET x == node
        y == h[node].right_child
        y_left == h[h[node].right_child].left_child
    IN  Bind([h EXCEPT ![y].left_child = x, ![y].parent = h[x].parent], LAMBDA h1 :
        Bind([h1 EXCEPT ![x].parent = y, ![x].right_child = y_left], LAMBDA h2 :
        Bind(IF y_left # NULL THEN [h2 EXCEPT ![y_left].parent = x] ELSE h2, LAMBDA h3 :
        Bind([h3 EXCEPT ![x].height =
                 Max(GetHeight(h3, y_left), GetHeight(h3, h3[x].left_child)) + 1], LAMBDA h4 :
        Bind([h4 EXCEPT ![y].height =
                 Max(GetHeight(h4, h4[y].right_child), GetHeight(h4, x)) + 1], LAMBDA h5 :
        Bind(UpdateRank(h5, x, y_left, h5[x].left_child), LAMBDA h6 :
        [h |-> UpdateRank(h6, y, h6[y].right_child, x), r |-> y]))))))

GetBalance(h, node) == GetHeight(h, h[node].left_child) - GetHeight(h, h[node].right_child)

(* Balance that answers a left-right or right-left case with a single rotation *)
Balance_SingleOnly(h, node) ==
    IF GetBalance(h, node) = 2 THEN RotateR(h, node)
    ELSE IF GetBalance(h, node) = -2 THEN RotateL(h, node)
    ELSE [h |-> h, r |-> node]

Balance(h, node) ==
    IF GetBalance(h, node) = 2 /\ GetBalance(h, h[node].left_child) >= 0
    THEN RotateR(h, node)
    ELSE IF GetBalance(h, node) = -2 /\ GetBalance(h, h[node].right_child) <= 0
    THEN RotateL(h, node)
    ELSE IF GetBalance(h, node) = 2 /\ GetBalance(h, h[node].left_child) < 0
    THEN Bind(RotateL(h, h[node].left_child), LAMBDA a :
         RotateR([a.h EXCEPT ![node].left_child = a.r], node))
    ELSE IF GetBalance(h, node) = -2 /\ GetBalance(h, h[node].right_child) > 0
    THEN Bind(RotateR(h, h[node].right_child), LAMBDA a :
         RotateL([a.h EXCEPT ![node].right_child = a.r], node))
    ELSE [h |-> h, r |-> node]

RECURSIVE FindMin(_, _)
FindMin(h, node) ==
    IF node = NULL THEN NULL
    ELSE IF h[node].left_child = NULL THEN node
    ELSE FindMin(h, h[node].left_child)

RECURSIVE FindMax(_, _)
FindMax(h, node) ==
    IF node = NULL THEN NULL
    ELSE IF h[node].right_child = NULL THEN node
    ELSE FindMax(h, h[node].right_child)

RECURSIVE FindTraverse(_, _, _)
FindTraverse(h, node, key) ==
    IF node = NULL THEN NULL
    ELSE IF Compare(key, h[node].key) = EQUAL THEN node
    ELSE IF Compare(key, h[node].key) = LESS_THAN
    THEN FindTraverse(h, h[node].left_child, key)
    ELSE FindTraverse(h, h[node].right_child, key)

(***************************************************************************)
(* The way up of InsertTraverse and RemoveTraverse: node's height and      *)
(* aggregate from its children, then Balance.                              *)
(***************************************************************************)
Refresh(h, node) ==
    Bind([h EXCEPT ![node].height =
             Max(GetHeight(h, h[node].left_child), GetHeight(h, h[node].right_child)) + 1],
         LAMBDA h1 :
    Balance(UpdateRank(h1, node, h1[node].left_child, h1[node].right_child), node))

(* node->left_child = child, and child->parent = node unless guarded and NULL *)
LinkLeft(h, node, child, guarded) ==
    Bind([h EXCEPT ![node].left_child = child], LAMBDA h1 :
    IF guarded /\ child = NULL THEN h1 ELSE [h1 EXCEPT ![child].parent = node])

(* node->right_child = child, and child->parent = node unless guarded and NULL *)
LinkRight(h, node, child, guarded) ==
    Bind([h EXCEPT ![node].right_child = child], LAMBDA h1 :
    IF guarded /\ child = NULL THEN h1 ELSE [h1 EXCEPT ![child].parent = node])

(* InsertTraverse that compares the node's key with the new key, the       *)
(* arguments of compare in the wrong order                                 *)
RECURSIVE InsertTraverse_Swapped(_, _, _, _)
InsertTraverse_Swapped(h, node, key, value) ==
    IF node = NULL
    THEN Bind(NewAddr(h), LAMBDA a : [h |-> (a :> NewNode(key, value)) @@ h, r |-> a])
    ELSE IF Compare(h[node].key, key) = LESS_THAN
    THEN Bind(InsertTraverse_Swapped(h, h[node].left_child, key, value), LAMBDA c :
         Refresh(LinkLeft(c.h, node, c.r, FALSE), node))
    ELSE Bind(InsertTraverse_Swapped(h, h[node].right_child, key, value), LAMBDA c :
         Refresh(LinkRight(c.h, node, c.r, FALSE), node))

(* InsertTraverse that descends left, not right, on an equal key *)
RECURSIVE InsertTraverse_TiesLeft(_, _, _, _)
InsertTraverse_TiesLeft(h, node, key, value) ==
    IF node = NULL
    THEN Bind(NewAddr(h), LAMBDA a : [h |-> (a :> NewNode(key, value)) @@ h, r |-> a])
    ELSE IF Compare(key, h[node].key) # GREATER_THAN
    THEN Bind(InsertTraverse_TiesLeft(h, h[node].left_child, key, value), LAMBDA c :
         Refresh(LinkLeft(c.h, node, c.r, FALSE), node))
    ELSE Bind(InsertTraverse_TiesLeft(h, h[node].right_child, key, value), LAMBDA c :
         Refresh(LinkRight(c.h, node, c.r, FALSE), node))

RECURSIVE InsertTraverse(_, _, _, _)
InsertTraverse(h, node, key, value) ==
    IF node = NULL
    THEN Bind(NewAddr(h), LAMBDA a : [h |-> (a :> NewNode(key, value)) @@ h, r |-> a])
    ELSE IF Compare(key, h[node].key) = LESS_THAN
    THEN Bind(InsertTraverse(h, h[node].left_child, key, value), LAMBDA c :
         Refresh(LinkLeft(c.h, node, c.r, FALSE), node))
    ELSE Bind(InsertTraverse(h, h[node].right_child, key, value), LAMBDA c :
         Refresh(LinkRight(c.h, node, c.r, FALSE), node))

(* the copy of the successor min_val into node: value, key and aggregate *)
CopyUp(h, node, min_val) ==
    [h EXCEPT ![node].value = h[min_val].value,
              ![node].key = h[min_val].key,
              ![node].rank = h[min_val].rank]

(* RemoveTraverse that, for a node with two children, removes the          *)
(* successor without copying its key and value into the node               *)
RECURSIVE RemoveTraverse_NoCopy(_, _, _)
RemoveTraverse_NoCopy(h, node, key) ==
    IF node = NULL THEN [h |-> h, r |-> NULL]
    ELSE IF Compare(key, h[node].key) = LESS_THAN
    THEN Bind(RemoveTraverse_NoCopy(h, h[node].left_child, key), LAMBDA c :
         Refresh(LinkLeft(c.h, node, c.r, TRUE), node))
    ELSE IF Compare(key, h[node].key) = GREATER_THAN
    THEN Bind(RemoveTraverse_NoCopy(h, h[node].right_child, key), LAMBDA c :
         Refresh(LinkRight(c.h, node, c.r, TRUE), node))
    ELSE IF h[node].left_child # NULL /\ h[node].right_child # NULL
    THEN Bind(FindMin(h, h[node].right_child), LAMBDA min_val :
         Bind(RemoveTraverse_NoCopy(h, h[node].right_child, h[min_val].key), LAMBDA c :
         Refresh(LinkRight(c.h, node, c.r, TRUE), node)))
    ELSE IF h[node].left_child # NULL
    THEN [h |-> Delete(h, node), r |-> h[node].left_child]
    ELSE IF h[node].right_child # NULL
    THEN [h |-> Delete(h, node), r |-> h[node].right_child]
    ELSE [h |-> Delete(h, node), r |-> NULL]

RECURSIVE RemoveTraverse(_, _, _)
RemoveTraverse(h, node, key) ==
    IF node = NULL THEN [h |-> h, r |-> NULL]
    ELSE IF Compare(key, h[node].key) = LESS_THAN
    THEN Bind(RemoveTraverse(h, h[node].left_child, key), LAMBDA c :
         Refresh(LinkLeft(c.h, node, c.r, TRUE), node))
    ELSE IF Compare(key, h[node].key) = GREATER_THAN
    THEN Bind(RemoveTraverse(h, h[node].right_child, key), LAMBDA c :
         Refresh(LinkRight(c.h, node, c.r, TRUE), node))
    ELSE IF h[node].left_child # NULL /\ h[node].right_child # NULL
    THEN Bind(FindMin(h, h[node].right_child), LAMBDA min_val :
         Bind(CopyUp(h, node, min_val), LAMBDA h1 :
         Bind(RemoveTraverse(h1, h1[node].right_child, h1[min_val].key), LAMBDA c :
         Refresh(LinkRight(c.h, node, c.r, TRUE), node))))
    ELSE IF h[node].left_child # NULL
    THEN [h |-> Delete(h, node), r |-> h[node].left_child]
    ELSE IF h[node].right_child # NULL
    THEN [h |-> Delete(h, node), r |-> h[node].right_child]
    ELSE [h |-> Delete(h, node), r |-> NULL]

(***************************************************************************)
(* AVLRankTree::Insert and AVLRankTree::Remove on a tree object t.  They   *)
(* return the new heap, the new tree object and the return value.          *)
(***************************************************************************)

(* root->parent left as it is *)
Unparent_Keep(h, root) == h

(* root->parent = NULL for a root that is not NULL *)
Unparent(h, root) ==
    IF root # NULL THEN [h EXCEPT ![root].parent = NULL] ELSE h

(* Insert that does not re-derive min_node *)
InsertOp_StaleMin(h, t, key, value) ==
    Bind(InsertTraverse(h, t.root, key, value), LAMBDA c :
    Bind(Unparent(c.h, c.r), LAMBDA h1 :
    [h |-> h1,
     tree |-> [size |-> t.size + 1, root |-> c.r,
               max_node |-> FindMax(h1, c.r), min_node |-> t.min_node],
     ret |-> TRUE]))

InsertOp(h, t, key, value) ==
    Bind(InsertTraverse(h, t.root, key, value), LAMBDA c :
    Bind(Unparent(c.h, c.r), LAMBDA h1 :
    [h |-> h1,
     tree |-> [size |-> t.size + 1, root |-> c.r,
               max_node |-> FindMax(h1, c.r), min_node |-> FindMin(h1, c.r)],
     ret |-> TRUE]))

(* Remove without the Find that makes it return false for an absent key *)
RemoveOp_NoFind(h, t, key) ==
    Bind(RemoveTraverse(h, t.root, key), LAMBDA c :
    Bind(Unparent(c.h, c.r), LAMBDA h1 :
    [h |-> h1,
     tree |-> [size |-> t.size - 1, root |-> c.r,
               max_node |-> FindMax(h1, c.r), min_node |-> FindMin(h1, c.r)],
     ret |-> TRUE]))

RemoveOp(h, t, key) ==
    IF FindTraverse(h, t.root, key) = NULL
    THEN [h |-> h, tree |-> t, ret |-> FALSE]
    ELSE Bind(RemoveTraverse(h, t.root, key), LAMBDA c :
         Bind(Unparent(c.h, c.r), LAMBDA h1 :
         [h |-> h1,
          tree |-> [size |-> t.size - 1, root |-> c.r,
                    max_node |-> FindMax(h1, c.r), min_node |-> FindMin(h1, c.r)],
          ret |-> TRUE]))

(***************************************************************************)
(* FilterObject.  A NULL min_range/max_range pointer is NULL; the filter   *)
(* function pointer is a record: null, or the set of entries it accepts.   *)
(***************************************************************************)
NoFilterFunction == [null |-> TRUE, accept |-> {}]

DefaultFilter ==
    [limit |-> -1, reverse |-> FALSE, min_range |-> NULL, max_range |-> NULL,
     FilterFunction |-> NoFilterFunction]

(* QueryResult() *)
EmptyQuery == [result |-> <<>>, total |-> 0]

(***************************************************************************)
(* QueryTraverse: the filtered in-order walk.  The chain of result nodes   *)
(* that Query later copies into the result array is the sequence result.   *)
(***************************************************************************)
(* the visit of a node that takes the entry whatever the filter function   *)
Visit_NoPredicate(h, node, query, filter) ==
    IF filter.limit <= -1 \/ filter.limit > query.total
    THEN [result |-> Append(query.result, [key |-> h[node].key, value |-> h[node].value]),
          total |-> query.total + 1]
    ELSE query

(* the visit of node between its two subtrees: the entry is taken if the   *)
(* limit is not reached and the filter function, if any, accepts it        *)
Visit(h, node, query, filter) ==
    IF /\ (filter.limit <= -1 \/ filter.limit > query.total)
       /\ \/ filter.FilterFunction.null
          \/ [key |-> h[node].key, value |-> h[node].value] \in filter.FilterFunction.accept
    THEN [result |-> Append(query.result, [key |-> h[node].key, value |-> h[node].value]),
          total |-> query.total + 1]
    ELSE query

RECURSIVE QueryTraverse(_, _, _, _)
QueryTraverse(h, node, query, filter) ==
    IF node = NULL \/ (filter.limit <= query.total /\ filter.limit > -1)
    THEN query
    ELSE IF filter.min_range # NULL /\ Compare(h[node].key, filter.min_range) = LESS_THAN
    THEN QueryTraverse(h, h[node].right_child, query, filter)
    ELSE IF filter.max_range # NULL /\ Compare(h[node].key, filter.max_range) = GREATER_THAN
    THEN QueryTraverse(h, h[node].left_child, query, filter)
    ELSE Bind(QueryTraverse(h, h[node].left_child, query, filter), LAMBDA q1 :
         QueryTraverse(h, h[node].right_child, Visit(h, node, q1, filter), filter))

Query(h, t, filter) == QueryTraverse(h, t.root, EmptyQuery, filter)

(***************************************************************************)
(* MergeTwoQueries: the two-pointer merge loop, from indexes i, j (0-based)*)
(* with the entries merged so far.  On a tie the second query's entry goes *)
(* first.                                                                  *)
(***************************************************************************)
RECURSIVE MergeLoop(_, _, _, _, _, _)
MergeLoop(first, second, i, j, acc, total) ==
    IF ~(Len(acc) < total) THEN acc
    ELSE IF i < first.total /\ j < second.total
    THEN IF Compare(first.result[i + 1].key, second.result[j + 1].key) = LESS_THAN
         THEN MergeLoop(first, second, i + 1, j, Append(acc, first.result[i + 1]), total)
         ELSE MergeLoop(first, second, i, j + 1, Append(acc, second.result[j + 1]), total)
    ELSE IF j >= second.total
    THEN MergeLoop(first, second, i + 1, j, Append(acc, first.result[i + 1]), total)
    ELSE MergeLoop(first, second, i, j + 1, Append(acc, second.result[j + 1]), total)

(* MergeTwoQueries that puts the second query after the first *)
MergeTwoQueries_Concat(first, second) ==
    [result |-> first.result \o second.result, total |-> first.total + second.total]

MergeTwoQueries(first, second) ==
    [result |-> MergeLoop(first, second, 0, 0, <<>>, first.total + second.total),
     total |-> first.total + second.total]

(***************************************************************************)
(* TreeFromQuery: the balanced tree of query.result[start..end] (0-based), *)
(* built into heap h for tree object t, whose root, min_node and max_node  *)
(* it sets on the way.                                                     *)
(***************************************************************************)
(* the tree object once the node of index middle is made: the first node   *)
(* made is the root, index 0 the minimum, index total - 1 the maximum      *)
Designate(t, query, middle, root) ==
    [t EXCEPT !.root = IF t.root = NULL THEN root ELSE @,
              !.min_node = IF middle = 0 THEN root ELSE @,
              !.max_node = IF middle = query.total - 1 THEN root ELSE @]

RECURSIVE TreeFromQuery(_, _, _, _, _)
TreeFromQuery(h, t, query, start, end) ==
    IF start > end THEN [h |-> h, tree |-> t, r |-> NULL]
    ELSE Bind((start + end) \div 2, LAMBDA middle :
         Bind(NewAddr(h), LAMBDA root :
         Bind((root :> NewNode(query.result[middle + 1].key,
                               query.result[middle + 1].value)) @@ h, LAMBDA h1 :
         Bind(TreeFromQuery(h1, Designate(t, query, middle, root), query, start, middle - 1),
              LAMBDA l :
         Bind(TreeFromQuery(LinkLeft(l.h, root, l.r, TRUE), l.tree, query, middle + 1, end),
              LAMBDA r :
         Bind(LinkRight(r.h, root, r.r, TRUE), LAMBDA h5 :
         Bind([h5 EXCEPT ![root].height =
                  Max(GetHeight(h5, h5[root].left_child),
                      GetHeight(h5, h5[root].right_child)) + 1], LAMBDA h6 :
         [h |-> UpdateRank(h6, root, h6[root].left_child, h6[root].right_child),
          tree |-> r.tree, r |-> root])))))))

(***************************************************************************)
(* AVLRankTree(first_tree, second_tree): the merge constructor.            *)
(***************************************************************************)
MergeCtor(h, first_tree, second_tree) ==
    IF first_tree.size + second_tree.size = 0
    THEN [h |-> h, tree |-> [EmptyTree EXCEPT !.size = first_tree.size + second_tree.size]]
    ELSE Bind(MergeTwoQueries(Query(h, first_tree, DefaultFilter),
                              Query(h, second_tree, DefaultFilter)), LAMBDA query :
         Bind(TreeFromQuery(h, [EmptyTree EXCEPT !.size = first_tree.size + second_tree.size],
                            query, 0, query.total - 1), LAMBDA c :
         [h |-> c.h, tree |-> c.tree]))

(***************************************************************************)
(* AVLRankTree(tree): the copy constructor.  The query it builds from is   *)
(* this->Query(), the query of the tree under construction, whose root is  *)
(* still NULL.                                                             *)
(***************************************************************************)
CopyCtor(h, source) ==
    IF source.root = NULL
    THEN [h |-> h, tree |-> [EmptyTree EXCEPT !.size = source.size]]
    ELSE Bind(Query(h, [EmptyTree EXCEPT !.size = source.size], DefaultFilter), LAMBDA query :
         Bind(TreeFromQuery(h, [EmptyTree EXCEPT !.size = source.size],
                            query, 0, query.total - 1), LAMBDA c :
         [h |-> c.h, tree |-> c.tree]))

(* ~AVLRankTree(): Deallocation of every node of the subtree at node *)
RECURSIVE Deallocation(_, _)
Deallocation(h, node) ==
    IF node = NULL THEN h
    ELSE Delete(Deallocation(Deallocation(h, h[node].left_child), h[node].right_child), node)

(***************************************************************************)
(* Results of the read operations.  A KeyValuePair the operation allocates *)
(* is the record of its key and value; the NULL KeyValuePair pointer, the  *)
(* std::out_of_range failure and a dereference of NULL are three records   *)
(* that are no entry.                                                      *)
(***************************************************************************)
Pair(h, node) == [key |-> h[node].key, value |-> h[node].value]
NullPair == [key |-> NULL, value |-> "NULL"]
OutOfRange == [key |-> NULL, value |-> "out_of_range"]
NullDeref == [key |-> NULL, value |-> "null_dereference"]

(* NODE_POSITION *)
ROOT == "ROOT"
LEFT_CHILD == "LEFT_CHILD"
RIGHT_CHILD == "RIGHT_CHILD"

(* the address FindIndexTraverse yields when it dereferences NULL *)
BadAddr == -1

(* GetMin / GetMax *)
GetMax(h, t) == IF t.max_node = NULL THEN NullPair ELSE Pair(h, t.max_node)
GetMin(h, t) == IF t.min_node = NULL THEN NullPair ELSE Pair(h, t.min_node)

(* Find *)
Find(h, t, key) ==
    LET result_node == FindTraverse(h, t.root, key)
    IN  IF result_node = NULL THEN NullPair ELSE Pair(h, result_node)

(* GetRelativeRank that takes both children out, whatever the direction *)
GetRelativeRank_Both(h, rank, node, direction) ==
    IF node = NULL THEN rank
    ELSE LET r0 == h[node].rank
             r1 == IF h[node].right_child # NULL
                   THEN r0 - h[h[node].right_child].rank ELSE r0
             r2 == IF h[node].left_child # NULL
                   THEN r1 - h[h[node].left_child].rank ELSE r1
         IN  r2

(***************************************************************************)
(* GetRelativeRank: node's aggregate without the right child's (unless     *)
(* direction is RIGHT_CHILD) and without the left child's (unless          *)
(* direction is LEFT_CHILD); rank is left as it is for a NULL node.        *)
(***************************************************************************)
GetRelativeRank(h, rank, node, direction) ==
    IF node = NULL THEN rank
    ELSE LET r0 == h[node].rank
             r1 == IF h[node].right_child # NULL /\ direction # RIGHT_CHILD
                   THEN r0 - h[h[node].right_child].rank ELSE r0
             r2 == IF h[node].left_child # NULL /\ direction # LEFT_CHILD
                   THEN r1 - h[h[node].left_child].rank ELSE r1
         IN  r2

RECURSIVE FindIndexTraverse(_, _, _, _)
FindIndexTraverse(h, node, index, cur_index) ==
    IF node = NULL THEN NULL
    ELSE IF index = cur_index THEN node
    ELSE IF index > cur_index
    THEN LET rank == GetRelativeRank(h, 0, h[node].right_child, LEFT_CHILD)
         IN  FindIndexTraverse(h, h[node].right_child, index, cur_index + rank)
    ELSE IF h[node].left_child = NULL THEN BadAddr
    ELSE LET lr == h[h[node].left_child].right_child
             c1 == IF lr # NULL THEN cur_index - h[lr].rank ELSE cur_index
         IN  FindIndexTraverse(h, h[node].left_child, index, c1 - 1)

(* FindIndex that lets the index size through *)
FindIndex_Inclusive(h, t, index) ==
    IF index < 0 \/ index > t.size THEN OutOfRange
    ELSE LET res_index == GetRelativeRank(h, 0, t.root, LEFT_CHILD)
             result_node == FindIndexTraverse(h, t.root, index + 1, res_index)
         IN  IF result_node = BadAddr THEN NullDeref
             ELSE IF result_node = NULL THEN NullPair
             ELSE Pair(h, result_node)

(* FindIndex, and operator[] which calls it *)
FindIndex(h, t, index) ==
    IF index < 0 \/ index >= t.size THEN OutOfRange
    ELSE LET res_index == GetRelativeRank(h, 0, t.root, LEFT_CHILD)
             result_node == FindIndexTraverse(h, t.root, index + 1, res_index)
         IN  IF result_node = BadAddr THEN NullDeref
             ELSE IF result_node = NULL THEN NullPair
             ELSE Pair(h, result_node)

RECURSIVE GetIndexOfKeyTraverse(_, _, _)
GetIndexOfKeyTraverse(h, node, key) ==
    IF node = NULL THEN -1
    ELSE LET result == Compare(key, h[node].key)
             res == GetRelativeRank(h, 0, node, LEFT_CHILD)
         IN  IF result = EQUAL THEN res - 1
             ELSE IF result = LESS_THAN THEN GetIndexOfKeyTraverse(h, h[node].left_child, key)
             ELSE res + GetIndexOfKeyTraverse(h, h[node].right_child, key)

(* GetIndexOfKey that answers a 1-based position *)
GetIndexOfKey_OneBased(h, t, key) == GetIndexOfKeyTraverse(h, t.root, key) + 1

GetIndexOfKey(h, t, key) == GetIndexOfKeyTraverse(h, t.root, key)

RECURSIVE ClosestTraverse(_, _, _, _, _)
ClosestTraverse(h, node, key, result_node, range) ==
    IF node = NULL THEN result_node
    ELSE LET result == Compare(key, h[node].key)
         IN  IF result = EQUAL THEN node
             ELSE IF result = LESS_THAN
             THEN ClosestTraverse(h, h[node].left_child, key,
                                  IF range = GREATER_THAN THEN node ELSE result_node, range)
             ELSE ClosestTraverse(h, h[node].right_child, key,
                                  IF range = LESS_THAN THEN node ELSE result_node, range)

(* Closest that searches downwards whatever the range *)
Closest_AlwaysLess(h, t, key, range) ==
    IF range = EQUAL THEN Find(h, t, key)
    ELSE LET result_node == ClosestTraverse(h, t.root, key, NULL, LESS_THAN)
         IN  IF result_node = NULL THEN NullPair ELSE Pair(h, result_node)

Closest(h, t, key, range) ==
    IF range = EQUAL THEN Find(h, t, key)
    ELSE LET result_node == ClosestTraverse(h, t.root, key, NULL, range)
         IN  IF result_node = NULL THEN NullPair ELSE Pair(h, result_node)

(* the descent from root that looks at node1's key only *)
RECURSIVE GetMostLowerCommonNode_First(_, _, _, _)
GetMostLowerCommonNode_First(h, root, node1, node2) ==
    IF root = NULL THEN NULL
    ELSE IF Compare(h[root].key, h[node1].key) = GREATER_THAN
    THEN GetMostLowerCommonNode_First(h, h[root].left_child, node1, node2)
    ELSE IF Compare(h[root].key, h[node1].key) = LESS_THAN
    THEN GetMostLowerCommonNode_First(h, h[root].right_child, node1, node2)
    ELSE root

(***************************************************************************)
(* GetMostLowerCommonNode: the descent from root that goes on while the    *)
(* node's key is on the same strict side of both node1's and node2's key.  *)
(***************************************************************************)
RECURSIVE GetMostLowerCommonNode(_, _, _, _)
GetMostLowerCommonNode(h, root, node1, node2) ==
    IF root = NULL THEN NULL
    ELSE IF /\ Compare(h[root].key, h[node1].key) = GREATER_THAN
            /\ Compare(h[root].key, h[node2].key) = GREATER_THAN
    THEN GetMostLowerCommonNode(h, h[root].left_child, node1, node2)
    ELSE IF /\ Compare(h[root].key, h[node1].key) = LESS_THAN
            /\ Compare(h[root].key, h[node2].key) = LESS_THAN
    THEN GetMostLowerCommonNode(h, h[root].right_child, node1, node2)
    ELSE root

(***************************************************************************)
(* The RankInfo that CollectRank returns is a record of its rank field;    *)
(* fault is set when the computation dereferenced NULL on its way.         *)
(***************************************************************************)
Rank(n) == [rank |-> n, fault |-> FALSE]
RankFault == [rank |-> 0, fault |-> TRUE]

(***************************************************************************)
(* CollectRankTraverse: the walk from node up the parent pointers to the   *)
(* first node whose key equals mlc's key.  Nodes on the relative_node's    *)
(* inner side add their relative rank to rank.                             *)
(***************************************************************************)
RECURSIVE CollectRankTraverse(_, _, _, _, _, _)
CollectRankTraverse(h, mlc, node, relative_node, rank, direction) ==
    IF mlc = NULL \/ node = NULL THEN RankFault
    ELSE IF Compare(h[mlc].key, h[node].key) = EQUAL THEN Rank(rank)
    ELSE IF direction = RIGHT_CHILD
    THEN IF Compare(h[node].key, h[relative_node].key) = LESS_THAN
         THEN CollectRankTraverse(h, mlc, h[node].parent, relative_node, rank, direction)
         ELSE CollectRankTraverse(h, mlc, h[node].parent, relative_node,
                                  rank + GetRelativeRank(h, 0, node, RIGHT_CHILD), direction)
    ELSE IF Compare(h[node].key, h[relative_node].key) = GREATER_THAN
         THEN CollectRankTraverse(h, mlc, h[node].parent, relative_node, rank, direction)
         ELSE CollectRankTraverse(h, mlc, h[node].parent, relative_node,
                                  rank + GetRelativeRank(h, 0, node, LEFT_CHILD), direction)

(* CollectRank, lines 1073-1080: the aggregate between the boundary nodes  *)
(* min and max, by way of their lowest common node                         *)
CollectBetween(h, t, min, max) ==
    LET mlc == GetMostLowerCommonNode(h, t.root, min, max)
        up_max == CollectRankTraverse(h, mlc, max, max, 0, LEFT_CHILD)
        up_min == CollectRankTraverse(h, mlc, min, min, up_max.rank, RIGHT_CHILD)
    IN  IF up_max.fault \/ up_min.fault THEN RankFault
        ELSE Rank(up_min.rank + GetRelativeRank(h, 0, mlc, ROOT))

(* CollectRank, lines 1014-1027: the boundary nodes of the range *)
UpperBoundary(h, t, filter) ==
    IF filter.max_range = NULL THEN t.max_node
    ELSE LET tmp_max == ClosestTraverse(h, t.root, filter.max_range, NULL, LESS_THAN)
         IN  IF tmp_max # NULL THEN tmp_max ELSE t.max_node

LowerBoundary(h, t, filter) ==
    IF filter.min_range = NULL THEN t.min_node
    ELSE LET tmp_min == ClosestTraverse(h, t.root, filter.min_range, NULL, GREATER_THAN)
         IN  IF tmp_min # NULL THEN tmp_min ELSE t.min_node

(* CollectRank, lines 1029-1037 and 1061-1070: nothing for a NULL          *)
(* boundary, the node's own contribution for boundaries of equal keys      *)
CollectFrom(h, t, min, max) ==
    IF max = BadAddr \/ min = BadAddr THEN RankFault
    ELSE IF max = NULL \/ min = NULL THEN Rank(0)
    ELSE IF Compare(h[max].key, h[min].key) = EQUAL
    THEN Rank(GetRelativeRank(h, 0, max, ROOT))
    ELSE CollectBetween(h, t, min, max)

(* CollectRank without the limit: lines 1043-1071 left out *)
CollectRank_NoLimit(h, t, filter) ==
    CollectFrom(h, t, LowerBoundary(h, t, filter), UpperBoundary(h, t, filter))

(***************************************************************************)
(* CollectRank.  With a positive limit one boundary is moved: the lower    *)
(* one up when reverse is set, the upper one down otherwise.               *)
(***************************************************************************)
CollectRank(h, t, filter) ==
    LET max == UpperBoundary(h, t, filter)
        min == LowerBoundary(h, t, filter)
    IN  IF max = NULL \/ min = NULL THEN Rank(0)
        ELSE IF Compare(h[max].key, h[min].key) = EQUAL
        THEN Rank(GetRelativeRank(h, 0, max, ROOT))
        ELSE IF filter.limit > 0
        THEN LET res_index == GetRelativeRank(h, 0, t.root, LEFT_CHILD)
                 max_index == GetIndexOfKey(h, t, h[max].key)
                 min_index == GetIndexOfKey(h, t, h[min].key)
             IN  IF filter.reverse
                 THEN IF max_index - filter.limit + 1 >= min_index
                      THEN CollectFrom(h, t,
                               FindIndexTraverse(h, t.root, max_index - filter.limit + 1 + 1,
                                                 res_index), max)
                      ELSE CollectFrom(h, t, min, max)
                 ELSE IF min_index + filter.limit - 1 <= max_index
                      THEN CollectFrom(h, t, min,
                               FindIndexTraverse(h, t.root, min_index + filter.limit - 1 + 1,
                                                 res_index))
                      ELSE CollectFrom(h, t, min, max)
        ELSE CollectBetween(h, t, min, max)

(***************************************************************************)
(* The address new returns is not fixed by the program, and the program    *)
(* only dereferences pointers and tests them against NULL.  States are     *)
(* therefore kept up to a renaming of addresses: Compact renames the nodes *)
(* of tree t to 1..n in pre-order (nodes of the heap outside the tree, if  *)
(* any, follow in address order; a pointer to a freed node stays a pointer *)
(* to a freed address).                                                    *)
(***************************************************************************)
RECURSIVE Preorder(_, _)
Preorder(h, node) ==
    IF node = NULL THEN <<>>
    ELSE <<node>> \o Preorder(h, h[node].left_child) \o Preorder(h, h[node].right_child)

RECURSIVE Ascending(_)
Ascending(S) ==
    IF S = {} THEN <<>>
    ELSE Bind(CHOOSE x \in S : \A y \in S : x <= y, LAMBDA m :
         <<m>> \o Ascending(S \ {m}))

(* the new address of pointer p: its place in order, NULL for NULL, and a  *)
(* free address for a pointer to a freed node                              *)
Rename(order, p) ==
    IF p = NULL THEN NULL
    ELSE IF \E i \in 1..Len(order) : order[i] = p
    THEN CHOOSE i \in 1..Len(order) : order[i] = p
    ELSE Len(order) + 1

Renamed(h, t, order) ==
    [h |-> [i \in 1..Len(order) |->
               [h[order[i]] EXCEPT !.parent = Rename(order, @),
                                   !.left_child = Rename(order, @),
                                   !.right_child = Rename(order, @)]],
     tree |-> [t EXCEPT !.root = Rename(order, @), !.max_node = Rename(order, @),
                        !.min_node = Rename(order, @)]]

Compact(h, t) ==
    Bind(Preorder(h, t.root), LAMBDA pre :
    Renamed(h, t, pre \o Ascending((DOMAIN h) \ {pre[i] : i \in 1..Len(pre)})))

(***************************************************************************)
(* A source tree for the merge constructor: the tree that a sequence of    *)
(* Insert calls builds, from the empty tree, in heap h.                    *)
(***************************************************************************)
RECURSIVE BuildTree(_, _, _)
BuildTree(h, t, entries) ==
    IF entries = <<>> THEN [h |-> h, tree |-> t]
    ELSE Bind(InsertOp(h, t, Head(entries).key, Head(entries).value), LAMBDA c :
         BuildTree(c.h, c.tree, Tail(entries)))

SrcSeqs == UNION {[1..n -> Entries] : n \in 0..MaxSrc}

(***************************************************************************)
(* The state machine.                                                      *)
(***************************************************************************)
Init ==
    /\ heap = <<>>
    /\ tree = EmptyTree

(* the heap and the tree object an operation leaves, addresses renamed *)
Becomes(c) ==
    Bind(Compact(c.h, c.tree), LAMBDA n : heap' = n.h /\ tree' = n.tree)

(* tree.Insert(key, value) *)
Insert(key, value) ==
    /\ tree.size < MaxNodes
    /\ Becomes(InsertOp(heap, tree, key, value))

(* tree.Remove(key) *)
Remove(key) ==
    /\ key \in Keys
    /\ Becomes(RemoveOp(heap, tree, key))

(* the two sources of a merge destroyed *)
Destroyed(c, first_tree, second_tree) ==
    [h |-> Deallocation(Deallocation(c.h, first_tree.root), second_tree.root),
     tree |-> c.tree]

(***************************************************************************)
(* The tree is replaced by the one merge-constructed from it and another   *)
(* tree, built by the Insert calls of entries, in either argument order;   *)
(* the two sources are then destroyed.                                     *)
(***************************************************************************)
Merge(entries, swap) ==
    /\ tree.size + Len(entries) <= MaxMerged
    /\ Bind(BuildTree(heap, EmptyTree, entries), LAMBDA other :
          Becomes(Destroyed(IF swap THEN MergeCtor(other.h, other.tree, tree)
                            ELSE MergeCtor(other.h, tree, other.tree),
                            tree, other.tree)))

Next ==
    \/ \E key \in Keys, value \in Values : Insert(key, value)
    \/ \E key \in Keys : Remove(key)
    \/ \E entries \in SrcSeqs, swap \in BOOLEAN : Merge(entries, swap)

Spec == Init /\ [][Next]_vars

(***************************************************************************)
(* The trees built by Insert calls only.  The value of each entry is the   *)
(* number of the Insert call that put it in: 1 for the first, 2 for the    *)
(* second, and so on.                                                      *)
(***************************************************************************)
InsertNext(key) ==
    /\ tree.size < MaxNodes
    /\ Becomes(InsertOp(heap, tree, key, tree.size + 1))

NextInsertOnly == \E key \in Keys : InsertNext(key)

SpecInsertOnly == Init /\ [][NextInsertOnly]_vars

(***************************************************************************)
(* The trees of up to MaxDeep nodes built by Insert and Remove calls: a    *)
(* subtree of three nodes below a node with two children needs five.       *)
(***************************************************************************)
InsertDeep(key, value) ==
    /\ tree.size < MaxDeep
    /\ Becomes(InsertOp(heap, tree, key, value))

NextDeep ==
    \/ \E key \in Keys, value \in Values : InsertDeep(key, value)
    \/ \E key \in Keys : Remove(key)

SpecDeep == Init /\ [][NextDeep]_vars

(***************************************************************************)
(* What the properties below speak of: the nodes below a node in in-order, *)
(* the true height and the true number of nodes of a subtree, and the keys *)
(* and entries of a sequence of nodes.                                     *)
(***************************************************************************)
RECURSIVE InOrder(_, _)
InOrder(h, node) ==
    IF node = NULL THEN <<>>
    ELSE InOrder(h, h[node].left_child) \o <<node>> \o InOrder(h, h[node].right_child)

Range(seq) == {seq[i] : i \in 1..Len(seq)}

Nodes(h, node) == Range(InOrder(h, node))

RECURSIVE TrueHeight(_, _)
TrueHeight(h, node) ==
    IF node = NULL THEN -1
    ELSE 1 + Max(TrueHeight(h, h[node].left_child), TrueHeight(h, h[node].right_child))

KeysOf(h, seq) == [i \in 1..Len(seq) |-> h[seq[i]].key]
EntriesOf(h, seq) == [i \in 1..Len(seq) |-> Pair(h, seq[i])]

NonDecreasing(keys) ==
    \A i \in 1..(Len(keys) - 1) : keys[i] <= keys[i + 1]

TreeKeys == KeysOf(heap, InOrder(heap, tree.root))
TreeEntries == EntriesOf(heap, InOrder(heap, tree.root))
Present(key) == key \in Range(TreeKeys)
HasDuplicates == \E i \in 1..(Len(TreeKeys) - 1) : TreeKeys[i] = TreeKeys[i + 1]
TwoChildren(h, node) == h[node].left_child # NULL /\ h[node].right_child # NULL

(* C1: after any sequence of Insert and Remove calls (duplicates and       *)
(* Remove of absent keys included) the unfiltered Query() is the in-order  *)
(* traversal of the tree and its keys are in non-decreasing order.         *)
C1_InOrderSorted ==
    LET q == Query(heap, tree, DefaultFilter)
    IN  /\ q.result = TreeEntries
        /\ q.total = Len(q.result)
        /\ NonDecreasing(KeysOf(heap, InOrder(heap, tree.root)))

(* a tree of four nodes with a repeated key and two different keys, in     *)
(* which a rotation has moved a key below an equal key, to its left        *)
C1_Witness ==
    /\ tree.size >= 4
    /\ HasDuplicates
    /\ \E i \in 1..(Len(TreeKeys) - 1) : TreeKeys[i] < TreeKeys[i + 1]
    /\ \E n \in Nodes(heap, tree.root) :
          \E m \in Nodes(heap, heap[n].left_child) : heap[m].key = heap[n].key

(* C2: after every Insert, Remove or merge-construction every node's two   *)
(* subtrees differ in true height by at most one (absent child: -1).       *)
C2_Balanced ==
    \A n \in Nodes(heap, tree.root) :
        LET d == TrueHeight(heap, heap[n].left_child) - TrueHeight(heap, heap[n].right_child)
        IN  -1 <= d /\ d <= 1

(* a tree of four nodes from which some Remove takes a node and has to     *)
(* rotate at the root to restore the balance                               *)
C2_Witness ==
    /\ tree.size = 4
    /\ \E key \in Keys :
          LET c == RemoveOp(heap, tree, key)
          IN  c.ret /\ c.tree.root # tree.root /\ TrueHeight(c.h, c.tree.root) = 1

(* C3: every node's stored height is 1 + the larger stored height of its   *)
(* children (-1 for an absent child), and its stored aggregate is its own  *)
(* contribution plus the stored aggregates of its children, which for the  *)
(* count aggregate is the number of nodes of its subtree.                  *)
C3_DerivedFields ==
    \A n \in Nodes(heap, tree.root) :
        /\ heap[n].height =
              1 + Max(GetHeight(heap, heap[n].left_child), GetHeight(heap, heap[n].right_child))
        /\ heap[n].rank =
              1 + (IF heap[n].left_child # NULL THEN heap[heap[n].left_child].rank ELSE 0)
                + (IF heap[n].right_child # NULL THEN heap[heap[n].right_child].rank ELSE 0)
        /\ heap[n].rank = Cardinality(Nodes(heap, n))

(* a tree of height two whose root counts four nodes and has a child that  *)
(* counts two                                                              *)
C3_Witness ==
    /\ tree.root # NULL
    /\ heap[tree.root].height = 2
    /\ heap[tree.root].rank = 4
    /\ \E n \in Nodes(heap, tree.root) : heap[n].rank = 2 /\ heap[n].parent = tree.root

(* C4: GetSize() is the number of nodes reachable from the root.           *)
C4_SizeIsNodeCount ==
    /\ tree.size = Cardinality(Nodes(heap, tree.root))
    /\ tree.size = Len(InOrder(heap, tree.root))

(* a tree of three nodes with a repeated key, for which some key is absent *)
(* so that a Remove of it returns false                                    *)
C4_Witness ==
    /\ tree.size = 3
    /\ HasDuplicates
    /\ \E key \in Keys : ~Present(key) /\ ~RemoveOp(heap, tree, key).ret

(* C5: min_node and max_node are the leftmost and the rightmost node, so   *)
(* GetMin()/GetMax() return an entry with the smallest/largest key of a    *)
(* non-empty tree, and both are NULL exactly when the root is NULL.        *)
C5_MinMaxCache ==
    /\ tree.min_node = FindMin(heap, tree.root)
    /\ tree.max_node = FindMax(heap, tree.root)
    /\ (tree.min_node = NULL) = (tree.root = NULL)
    /\ (tree.max_node = NULL) = (tree.root = NULL)
    /\ tree.root = NULL => GetMin(heap, tree) = NullPair /\ GetMax(heap, tree) = NullPair
    /\ tree.root # NULL =>
          /\ GetMin(heap, tree) = TreeEntries[1]
          /\ GetMax(heap, tree) = TreeEntries[Len(TreeEntries)]
          /\ \A key \in Range(TreeKeys) :
                GetMin(heap, tree).key <= key /\ key <= GetMax(heap, tree).key

(* a tree whose smallest and largest keys differ and sit in nodes other    *)
(* than the root                                                           *)
C5_Witness ==
    /\ tree.size >= 3
    /\ tree.min_node # tree.root
    /\ tree.max_node # tree.root
    /\ GetMin(heap, tree).key < GetMax(heap, tree).key

(* keys without the first occurrence of key *)
RECURSIVE RemoveFirst(_, _)
RemoveFirst(keys, key) ==
    IF keys = <<>> THEN <<>>
    ELSE IF Head(keys) = key THEN Tail(keys)
    ELSE <<Head(keys)>> \o RemoveFirst(Tail(keys), key)

(* C6: Remove(k) returns true exactly when k is in the tree; then the size *)
(* drops by one and the in-order keys lose one occurrence of k and nothing *)
(* else; when it returns false the heap and the tree object are untouched. *)
C6_RemoveContract ==
    \A key \in Keys :
        LET c == RemoveOp(heap, tree, key)
        IN  /\ c.ret = Present(key)
            /\ c.ret =>
                  /\ c.tree.size = tree.size - 1
                  /\ KeysOf(c.h, InOrder(c.h, c.tree.root)) = RemoveFirst(TreeKeys, key)
            /\ ~c.ret => c.h = heap /\ c.tree = tree

(* a tree of four nodes with a repeated key where one Remove hits a node   *)
(* with two children and another Remove is of an absent key                *)
C6_Witness ==
    /\ tree.size = 4
    /\ HasDuplicates
    /\ \E key \in Keys :
          /\ RemoveOp(heap, tree, key).ret
          /\ TwoChildren(heap, FindTraverse(heap, tree.root, key))
    /\ \E key \in Keys : ~RemoveOp(heap, tree, key).ret

(* C7: for every index i in [0, size), FindIndex(i) is the i-th entry      *)
(* (0-based) of the unfiltered Query(), and not NULL.                      *)
C7_FindIndexIsQueryElement ==
    LET q == Query(heap, tree, DefaultFilter)
    IN  \A i \in 0..(tree.size - 1) :
           /\ i + 1 <= Len(q.result)
           /\ FindIndex(heap, tree, i) = q.result[i + 1]
           /\ FindIndex(heap, tree, i) \notin {NullPair, OutOfRange, NullDeref}

(* a tree of four nodes, two of them with the same key and different       *)
(* values, whose last index is found in the rightmost node                 *)
C7_Witness ==
    /\ tree.size = 4
    /\ \E i \in 1..3 : /\ TreeEntries[i].key = TreeEntries[i + 1].key
                       /\ TreeEntries[i].value # TreeEntries[i + 1].value
    /\ FindIndex(heap, tree, 3) = Pair(heap, tree.max_node)
    /\ FindIndex(heap, tree, 0) = Pair(heap, tree.min_node)

(* C8: GetIndexOfKey(k) is -1 for every key k that is not in the tree      *)
(* (violated: the ranks added on the way right are added to the -1).       *)
C8_AbsentKeyIsMinusOne ==
    \A key \in Keys : ~Present(key) => GetIndexOfKey(heap, tree, key) = -1

(* C9: for every key k in the tree, GetIndexOfKey(k) is an index in        *)
(* [0, size) at which FindIndex finds an entry with key k, and with        *)
(* distinct keys it is the number of keys smaller than k.                  *)
C9_IndexOfPresentKey ==
    \A key \in Keys :
        Present(key) =>
            LET i == GetIndexOfKey(heap, tree, key)
            IN  /\ 0 <= i /\ i < tree.size
                /\ FindIndex(heap, tree, i).key = key
                /\ ~HasDuplicates => i = Cardinality({k \in Range(TreeKeys) : k < key})

(* a tree with a repeated key whose index is not that of the key's first   *)
(* occurrence                                                              *)
C9_Witness ==
    /\ tree.size >= 3
    /\ \E key \in Keys :
          /\ Present(key)
          /\ GetIndexOfKey(heap, tree, key) > 0
          /\ TreeKeys[GetIndexOfKey(heap, tree, key) + 1] = key
          /\ TreeKeys[GetIndexOfKey(heap, tree, key)] = key

(* the greatest key of the tree below key and the smallest above it *)
Below(key) == {k \in Range(TreeKeys) : k < key}
Above(key) == {k \in Range(TreeKeys) : k > key}
Greatest(S) == CHOOSE x \in S : \A y \in S : y <= x
Smallest(S) == CHOOSE x \in S : \A y \in S : x <= y

StrictlyClosest(key) ==
    /\ LET r == Closest(heap, tree, key, LESS_THAN)
       IN  IF Below(key) = {} THEN r = NullPair
           ELSE r \in Range(TreeEntries) /\ r.key = Greatest(Below(key))
    /\ LET r == Closest(heap, tree, key, GREATER_THAN)
       IN  IF Above(key) = {} THEN r = NullPair
           ELSE r \in Range(TreeEntries) /\ r.key = Smallest(Above(key))

(* C10 as stated: for every key k, in the tree or not, Closest(k,          *)
(* LESS_THAN) is the entry with the greatest key strictly less than k and  *)
(* Closest(k, GREATER_THAN) the entry with the smallest key strictly       *)
(* greater than k, NULL when there is none.                                *)
C10_StrictEvenIfPresent == \A key \in Keys : StrictlyClosest(key)

(* C10 as amended: that holds for the keys k that are not in the tree; for *)
(* a key k that is in the tree both calls return an entry with key k.      *)
C10_ClosestOrEqual ==
    \A key \in Keys :
        IF Present(key)
        THEN /\ Closest(heap, tree, key, LESS_THAN) \in Range(TreeEntries)
             /\ Closest(heap, tree, key, LESS_THAN).key = key
             /\ Closest(heap, tree, key, GREATER_THAN) \in Range(TreeEntries)
             /\ Closest(heap, tree, key, GREATER_THAN).key = key
        ELSE StrictlyClosest(key)

(* a tree with keys on both sides of an absent key, and with a present key *)
(* that has a smaller key below it, for which Closest returns the key      *)
(* itself                                                                  *)
C10_Witness ==
    /\ \E key \in Keys :
          /\ ~Present(key)
          /\ Closest(heap, tree, key, LESS_THAN).key = key - 1
          /\ Closest(heap, tree, key, GREATER_THAN).key = key + 1
    /\ \E key \in Keys :
          /\ Present(key)
          /\ Below(key) # {}
          /\ Closest(heap, tree, key, LESS_THAN).key = key

(* C11: CollectRank() with the default filter is the sum of the            *)
(* contributions (one each) of the elements of the unfiltered Query(),     *)
(* which is GetSize(), and the identity 0 on the empty tree.               *)
C11_FullRangeIsSize ==
    /\ CollectRank(heap, tree, DefaultFilter) = Rank(Query(heap, tree, DefaultFilter).total)
    /\ CollectRank(heap, tree, DefaultFilter) = Rank(tree.size)

(* the filters that set a range: min_range, max_range or both, each a key  *)
(* or unset, with no limit and no predicate                                *)
RangeFilters ==
    {[DefaultFilter EXCEPT !.min_range = lo, !.max_range = hi] :
        lo \in Keys \cup {NULL}, hi \in Keys \cup {NULL}}
    \ {DefaultFilter}

(* key lies in the range of filter, both bounds inclusive, an unset bound  *)
(* unbounded                                                               *)
InRange(filter, key) ==
    /\ filter.min_range # NULL => filter.min_range <= key
    /\ filter.max_range # NULL => key <= filter.max_range

(* the entries of seq in the range of filter, in the order of seq *)
MatchingOf(seq, filter) == SelectSeq(seq, LAMBDA e : InRange(filter, e.key))

(* the entries of the tree in the range of filter, in in-order *)
Matching(filter) == MatchingOf(TreeEntries, filter)

(* C12: in a tree with distinct keys, CollectRank of a filter that only    *)
(* sets a range is the number of entries in the range, Query(filter).total,*)
(* and 0 when no key lies in the range.                                    *)
C12_RangeCount ==
    ~HasDuplicates =>
        \A filter \in RangeFilters :
            /\ Query(heap, tree, filter).total = Len(Matching(filter))
            /\ CollectRank(heap, tree, filter) = Rank(Len(Matching(filter)))

(* the filters with a limit of at least one, over every range and the      *)
(* unbounded range, reverse set or not                                     *)
Limits == 1..(MaxNodes + 1)

LimitFilters ==
    {[f EXCEPT !.limit = limit, !.reverse = reverse] :
        f \in RangeFilters \cup {DefaultFilter}, limit \in Limits, reverse \in BOOLEAN}

Min(a, b) == IF a <= b THEN a ELSE b

Prefix(seq, n) == SubSeq(seq, 1, Min(Max(n, 0), Len(seq)))

(* the predicates of a filter: none, or one that accepts a set of entries  *)
Predicates ==
    {NoFilterFunction}
    \cup {[null |-> FALSE, accept |-> {e \in Entries : e.value = "a"}],
          [null |-> FALSE, accept |-> {e \in Entries : e.key # 2}]}

(* the filters with reverse unset: every limit from -2 (two negative       *)
(* limits, zero, and limits below and above any number of matches), with   *)
(* every range and no predicate, and with every predicate and a range that *)
(* is unbounded or has both bounds                                         *)
ForwardFilters ==
    {[f EXCEPT !.limit = limit] :
        f \in RangeFilters \cup {DefaultFilter}, limit \in (-2)..MaxNodes}
    \cup
    {[f EXCEPT !.limit = limit, !.FilterFunction = p] :
        f \in {DefaultFilter, [DefaultFilter EXCEPT !.min_range = 1, !.max_range = 2],
                              [DefaultFilter EXCEPT !.min_range = 2, !.max_range = MaxKey]},
        limit \in (-2)..MaxNodes,
        p \in Predicates}

(* the entries of seq that the range and the predicate of filter let       *)
(* through, in the order of seq                                            *)
AcceptedOf(seq, filter) ==
    SelectSeq(seq, LAMBDA e : /\ InRange(filter, e.key)
                              /\ \/ filter.FilterFunction.null
                                 \/ e \in filter.FilterFunction.accept)

(* those of the tree, in in-order *)
Accepted(filter) == AcceptedOf(TreeEntries, filter)

(* C14: with reverse unset, Query(filter) is the first min(limit, m) of    *)
(* the m entries in the inclusive range that satisfy the predicate, in     *)
(* ascending key order, all m for a negative limit; total is the length of *)
(* the result and at most a non-negative limit.                            *)
C14_ForwardQuery ==
    LET all == TreeEntries
    IN  \A filter \in ForwardFilters :
        LET q == Query(heap, tree, filter)
            accepted == AcceptedOf(all, filter)
        IN  /\ q.result = IF filter.limit < 0 THEN accepted
                          ELSE Prefix(accepted, filter.limit)
            /\ q.total = Len(q.result)
            /\ filter.limit >= 0 => q.total <= filter.limit
            /\ NonDecreasing([i \in 1..Len(q.result) |-> q.result[i].key])

(* a tree of four nodes with a repeated key and a filter with both bounds, *)
(* a predicate and a limit that cuts the two accepted entries to one,      *)
(* while the range and the predicate each reject an entry                  *)
C14_Witness ==
    /\ tree.size = 4
    /\ HasDuplicates
    /\ \E filter \in ForwardFilters :
          /\ filter.min_range # NULL /\ filter.max_range # NULL
          /\ ~filter.FilterFunction.null
          /\ filter.limit = 1
          /\ Len(Matching(filter)) < tree.size
          /\ Len(Accepted(filter)) < Len(Matching(filter))
          /\ Len(Accepted(filter)) > filter.limit
          /\ Query(heap, tree, filter).total = 1

(* the last n elements of seq *)
Suffix(seq, n) == SubSeq(seq, Len(seq) - n + 1, Len(seq))

Reverse(seq) == [i \in 1..Len(seq) |-> seq[Len(seq) - i + 1]]

(* C15: with reverse set and a limit L below the number m of matching      *)
(* entries, Query returns the L largest matching entries (in either        *)
(* order), as many as CollectRank counts for the same filter.              *)
C15_ReverseWindow ==
    \A filter \in LimitFilters :
        (filter.reverse /\ filter.limit < Len(Matching(filter))) =>
            LET q == Query(heap, tree, filter)
            IN  /\ \/ q.result = Suffix(Matching(filter), filter.limit)
                   \/ q.result = Reverse(Suffix(Matching(filter), filter.limit))
                /\ CollectRank(heap, tree, filter) = Rank(q.total)

(* the sources B of a merge that the property ranges over: the empty tree, *)
(* the trees of one entry, and the trees of two entries of which the       *)
(* second has key 2                                                        *)
OtherSeqs ==
    {<<>>}
    \cup {<<[key |-> k, value |-> "b"]>> : k \in Keys}
    \cup {<<[key |-> k, value |-> "a"], [key |-> 2, value |-> "b"]>> : k \in Keys}

(* how often e occurs in seq *)
Count(seq, e) == Cardinality({i \in 1..Len(seq) : seq[i] = e})

(* C16: the tree merge-constructed from A (the tree of the state) and B    *)
(* (built from any entries), in either argument order, has size |A| + |B|; *)
(* its in-order keys are non-decreasing and every entry occurs in it as    *)
(* often as in A and B together, so its key sequence is the ascending      *)
(* merge of theirs; its nodes are new, and the nodes and the tree objects  *)
(* of A and B are as they were.                                            *)
C16_MergeConstructed ==
    \A entries \in OtherSeqs, swap \in BOOLEAN :
        LET other == BuildTree(heap, EmptyTree, entries)
            c == IF swap THEN MergeCtor(other.h, other.tree, tree)
                 ELSE MergeCtor(other.h, tree, other.tree)
            merged == EntriesOf(c.h, InOrder(c.h, c.tree.root))
            B == EntriesOf(other.h, InOrder(other.h, other.tree.root))
        IN  /\ c.tree.size = tree.size + other.tree.size
            /\ Len(merged) = c.tree.size
            /\ NonDecreasing([i \in 1..Len(merged) |-> merged[i].key])
            /\ \A e \in Entries : Count(merged, e) = Count(TreeEntries, e) + Count(B, e)
            /\ Nodes(c.h, c.tree.root) \cap DOMAIN other.h = {}
            /\ \A n \in DOMAIN other.h : c.h[n] = other.h[n]
            /\ EntriesOf(c.h, InOrder(c.h, tree.root)) = TreeEntries
            /\ EntriesOf(c.h, InOrder(c.h, other.tree.root)) = B

(* a tree of three nodes with a repeated key, for which some B of two      *)
(* entries has a key of the tree and a key that is not in the tree and     *)
(* lies between two of its keys, and the merged tree has five nodes        *)
C16_Witness ==
    /\ tree.size = 3
    /\ HasDuplicates
    /\ \E entries \in OtherSeqs :
          /\ Len(entries) = 2
          /\ Present(entries[1].key)
          /\ ~Present(entries[2].key)
          /\ \E i \in 1..(Len(TreeKeys) - 1) :
                TreeKeys[i] < entries[2].key /\ entries[2].key < TreeKeys[i + 1]
          /\ LET other == BuildTree(heap, EmptyTree, entries)
             IN  MergeCtor(other.h, tree, other.tree).tree.size = 5

(* C17: the tree copy-constructed from the tree of the state has the same  *)
(* unfiltered Query() sequence of entries, a size that is the number of    *)
(* its nodes, nodes of its own, and the structural invariants: balance,    *)
(* heights and aggregates, min/max cache.                                  *)
C17_CopyIsDeepCopy ==
    LET c == CopyCtor(heap, tree)
        copy == Nodes(c.h, c.tree.root)
    IN  /\ Query(c.h, c.tree, DefaultFilter) = Query(heap, tree, DefaultFilter)
        /\ c.tree.size = Cardinality(copy)
        /\ copy \cap Nodes(heap, tree.root) = {}
        /\ \A n \in copy :
              /\ c.h[n].height = TrueHeight(c.h, n)
              /\ c.h[n].rank = Cardinality(Nodes(c.h, n))
              /\ TrueHeight(c.h, c.h[n].left_child) - TrueHeight(c.h, c.h[n].right_child)
                    \in {-1, 0, 1}
        /\ c.tree.min_node = FindMin(c.h, c.tree.root)
        /\ c.tree.max_node = FindMax(c.h, c.tree.root)

(* the tree after Insert(key, value) and then Remove(key) *)
RoundTrip(key, value) ==
    Bind(InsertOp(heap, tree, key, value), LAMBDA c : RemoveOp(c.h, c.tree, key))

(* C18: Insert(k, v) followed by Remove(k) restores the size and the       *)
(* in-order sequence of (key, value) entries, whether or not k was in the  *)
(* tree.                                                                   *)
C18_RoundTrip ==
    \A key \in Keys, value \in Values :
        LET c == RoundTrip(key, value)
        IN  /\ c.ret
            /\ c.tree.size = tree.size
            /\ EntriesOf(c.h, InOrder(c.h, c.tree.root)) = TreeEntries

(* C18, amended: the round trip restores the size and the in-order key     *)
(* sequence for every key, and the in-order sequence of (key, value)       *)
(* entries for every key that was not in the tree.                         *)
C18_RoundTripKeys ==
    \A key \in Keys, value \in Values :
        LET c == RoundTrip(key, value)
        IN  /\ c.ret
            /\ c.tree.size = tree.size
            /\ KeysOf(c.h, InOrder(c.h, c.tree.root)) = TreeKeys
            /\ ~Present(key) => EntriesOf(c.h, InOrder(c.h, c.tree.root)) = TreeEntries

(* a tree of two nodes: the Insert of some absent key rotates the new node  *)
(* up so that the Remove finds it with two children, and the round trip of *)
(* some present key changes the entries                                    *)
C18_Witness ==
    /\ tree.size = 2
    /\ \E key \in Keys, value \in Values :
          /\ ~Present(key)
          /\ LET c == InsertOp(heap, tree, key, value)
             IN  TwoChildren(c.h, FindTraverse(c.h, c.tree.root, key))
          /\ RoundTrip(key, value).ret
    /\ \E key \in Keys, value \in Values :
          /\ Present(key)
          /\ LET c == RoundTrip(key, value)
             IN  EntriesOf(c.h, InOrder(c.h, c.tree.root)) # TreeEntries

(* C19: every node's left subtree holds only keys that compare less than   *)
(* its key and its right subtree only keys that compare greater or equal.  *)
C19_StrictOrdering ==
    \A n \in Nodes(heap, tree.root) :
        /\ \A m \in Nodes(heap, heap[n].left_child) :
              Compare(heap[m].key, heap[n].key) = LESS_THAN
        /\ \A m \in Nodes(heap, heap[n].right_child) :
              Compare(heap[m].key, heap[n].key) # LESS_THAN

(* the indexes tried: from below 0 to above any size *)
Indexes == (-2)..(MaxNodes + 1)

C21_InsertKeepsInsertionOrder ==
    LET entries == TreeEntries
    IN  /\ Len(entries) = tree.size
        /\ {entries[i].value : i \in 1..Len(entries)} = 1..tree.size
        /\ \A i \in 1..(Len(entries) - 1) :
              \/ entries[i].key < entries[i + 1].key
              \/ entries[i].key = entries[i + 1].key /\ entries[i].value < entries[i + 1].value
        /\ \A key \in Keys :
              LET c == InsertOp(heap, tree, key, tree.size + 1)
              IN  /\ c.ret
                  /\ c.tree.size = tree.size + 1
                  /\ DOMAIN heap \subseteq DOMAIN c.h
                  /\ Cardinality(DOMAIN c.h) = Cardinality(DOMAIN heap) + 1
                  /\ Cardinality(Nodes(c.h, c.tree.root)) = tree.size + 1

(* a tree of four Insert calls, three of them of one key, in which a       *)
(* rotation has put a node of that key to the left of a later one of the   *)
(* same key, its parent                                                    *)
C21_Witness ==
    /\ tree.size = 4
    /\ \E key \in Keys : Cardinality({n \in Nodes(heap, tree.root) : heap[n].key = key}) = 3
    /\ \E n \in Nodes(heap, tree.root) :
          /\ heap[n].left_child # NULL
          /\ heap[heap[n].left_child].key = heap[n].key
          /\ heap[heap[n].left_child].value < heap[n].value

(* C22: a Remove(k) that returns true deletes one node, and the entries of *)
(* the tree afterwards are those before less one entry of key k: every     *)
(* (key, value) entry occurs as often as before, but one entry of key k    *)
(* that occurs once less.                                                  *)
C22_RemoveTakesOneEntry ==
    LET before == TreeEntries
    IN  \A key \in Keys :
            LET c == RemoveOp(heap, tree, key)
                after == EntriesOf(c.h, InOrder(c.h, c.tree.root))
            IN  c.ret =>
                    /\ Cardinality(DOMAIN c.h) = Cardinality(DOMAIN heap) - 1
                    /\ \E gone \in Entries :
                          /\ gone.key = key
                          /\ \A e \in Entries :
                                Count(after, e) =
                                    Count(before, e) - (IF e = gone THEN 1 ELSE 0)

(* the parent pointers of the tree t in heap h agree with the child        *)
(* pointers: the root has no parent and every child has its parent         *)
ParentsConsistent(h, t) ==
    /\ t.root # NULL => h[t.root].parent = NULL
    /\ \A n \in Nodes(h, t.root) :
          /\ h[n].left_child # NULL => h[h[n].left_child].parent = n
          /\ h[n].right_child # NULL => h[h[n].right_child].parent = n

(* C23: after every Insert, Remove and merge-construction the root's       *)
(* parent is NULL and every left and right child has its node as parent.   *)
C23_ParentLinks == ParentsConsistent(heap, tree)

(* a tree of four nodes, one of them a grandchild of the root, from which  *)
(* one Remove splices a child up in the place of its parent and another    *)
(* Remove rotates a new node into the root                                 *)
C23_Witness ==
    /\ tree.size = 4
    /\ \E n \in Nodes(heap, tree.root) :
          heap[n].parent # NULL /\ heap[heap[n].parent].parent = tree.root
    /\ \E key \in Keys :
          LET c == RemoveOp(heap, tree, key)
              node == FindTraverse(heap, tree.root, key)
          IN  /\ c.ret
              /\ node # tree.root
              /\ ~TwoChildren(heap, node)
              /\ heap[node].left_child # NULL \/ heap[node].right_child # NULL
              /\ ParentsConsistent(c.h, c.tree)
    /\ \E key \in Keys :
          LET c == RemoveOp(heap, tree, key)
          IN  c.ret /\ c.tree.root # tree.root /\ ParentsConsistent(c.h, c.tree)

(* the boundary nodes min and max as CollectRank holds them after lines    *)
(* 1014-1059: resolved from the range, then one of them moved by a         *)
(* positive limit                                                          *)
Boundaries(h, t, filter) ==
    LET max == UpperBoundary(h, t, filter)
        min == LowerBoundary(h, t, filter)
    IN  IF max = NULL \/ min = NULL \/ filter.limit <= 0
        THEN [min |-> min, max |-> max]
        ELSE IF Compare(h[max].key, h[min].key) = EQUAL
        THEN [min |-> min, max |-> max]
        ELSE LET res_index == GetRelativeRank(h, 0, t.root, LEFT_CHILD)
                 max_index == GetIndexOfKey(h, t, h[max].key)
                 min_index == GetIndexOfKey(h, t, h[min].key)
             IN  IF filter.reverse
                 THEN IF max_index - filter.limit + 1 >= min_index
                      THEN [min |-> FindIndexTraverse(h, t.root,
                                        max_index - filter.limit + 1 + 1, res_index),
                            max |-> max]
                      ELSE [min |-> min, max |-> max]
                 ELSE IF min_index + filter.limit - 1 <= max_index
                      THEN [min |-> min,
                            max |-> FindIndexTraverse(h, t.root,
                                        min_index + filter.limit - 1 + 1, res_index)]
                      ELSE [min |-> min, max |-> max]

(***************************************************************************)
(* The trees reachable by Insert and Remove alone, of up to MaxDeep nodes. *)
(* CollectRank reads keys, ranks and pointers and no value, so every entry *)
(* is inserted with the same value.                                        *)
(***************************************************************************)
InsertKey(key) ==
    /\ tree.size < MaxDeep
    /\ Becomes(InsertOp(heap, tree, key, "a"))

NextKeys ==
    \/ \E key \in Keys : InsertKey(key)
    \/ \E key \in Keys : Remove(key)

SpecKeys == Init /\ [][NextKeys]_vars

(* every filter CollectRank reads: every range, inverted ranges among      *)
(* them, every limit from -1 to one more than any tree size, reverse set   *)
(* or not (CollectRank does not read the filter function)                  *)
AnyFilters ==
    {[f EXCEPT !.limit = limit, !.reverse = reverse] :
        f \in RangeFilters \cup {DefaultFilter},
        limit \in (-1)..(MaxDeep + 1), reverse \in BOOLEAN}

(* the nodes on the parent path from node to the root, node included *)
RECURSIVE Ancestors(_, _)
Ancestors(h, node) ==
    IF node = NULL THEN {} ELSE {node} \cup Ancestors(h, h[node].parent)

(* C24: in every CollectRank call on a non-empty tree, whatever the        *)
(* filter and with duplicate keys allowed, the call returns a value        *)
(* without dereferencing NULL; when it reaches GetMostLowerCommonNode (the *)
(* boundary nodes are there and differ in key, in order or inverted), the  *)
(* node returned is not NULL and lies on the parent path of both boundary  *)
(* nodes, and each of the two upward walks ends at a node with that node's *)
(* key before it follows a NULL parent.                                    *)
C24_CommonNodeAboveBoundaries ==
    tree.size > 0 =>
        \A filter \in AnyFilters :
            LET b == Boundaries(heap, tree, filter)
            IN  /\ ~CollectRank(heap, tree, filter).fault
                /\ b.min # BadAddr /\ b.max # BadAddr
                /\ (/\ b.min # NULL /\ b.max # NULL
                    /\ Compare(heap[b.max].key, heap[b.min].key) # EQUAL) =>
                       LET mlc == GetMostLowerCommonNode(heap, tree.root, b.min, b.max)
                       IN  /\ mlc # NULL
                           /\ mlc \in Ancestors(heap, b.min)
                           /\ mlc \in Ancestors(heap, b.max)
                           /\ ~CollectRankTraverse(heap, mlc, b.max, b.max, 0,
                                                   LEFT_CHILD).fault
                           /\ ~CollectRankTraverse(heap, mlc, b.min, b.min, 0,
                                                   RIGHT_CHILD).fault

(* a tree of MaxDeep nodes, a duplicate key among them, and a filter with  *)
(* an inverted range whose boundary nodes are inverted too and lie         *)
(* strictly below their lowest common node, which CollectRank reaches      *)
(* without a fault                                                         *)
C24_Witness ==
    /\ tree.size = MaxDeep
    /\ HasDuplicates
    /\ \E filter \in AnyFilters :
          LET b == Boundaries(heap, tree, filter)
              mlc == GetMostLowerCommonNode(heap, tree.root, b.min, b.max)
          IN  /\ filter.min_range # NULL /\ filter.max_range # NULL
              /\ filter.min_range > filter.max_range
              /\ b.min \in DOMAIN heap /\ b.max \in DOMAIN heap
              /\ Compare(heap[b.min].key, heap[b.max].key) = GREATER_THAN
              /\ mlc \notin {NULL, b.min, b.max}
              /\ mlc \in Ancestors(heap, b.min) \cap Ancestors(heap, b.max)
              /\ ~CollectRank(heap, tree, filter).fault

(* the filters with limit 0: every range and the unbounded range, reverse  *)
(* set or not, every predicate                                             *)
ZeroLimitFilters ==
    {[f EXCEPT !.limit = 0, !.reverse = reverse, !.FilterFunction = p] :
        f \in RangeFilters \cup {DefaultFilter}, reverse \in BOOLEAN, p \in Predicates}

(* C25: on a non-empty tree, for every filter with limit 0, Query returns  *)
(* no entry (total 0) and CollectRank returns the count 0.                 *)
C25_ZeroLimit ==
    tree.size > 0 =>
        \A filter \in ZeroLimitFilters :
            /\ Query(heap, tree, filter) = EmptyQuery
            /\ CollectRank(heap, tree, filter) = Rank(0)

====
